---- MODULE Spec2Model ----
(***************************************************************************)
(* Model of the Mancala rules engine of nd-mancala: the GameState class    *)
(* (board rows, stores, turn marker, isValidMove, performMove,             *)
(* simulateMove) and the Game handlers that drive it (stones slider,       *)
(* restart).  Source: src/src/game-state.js.                               *)
(***************************************************************************)
EXTENDS Integers, Sequences, FiniteSets, TLC

\* Number of pockets per player (GameState constructor argument; Game passes 6).
pocketsPerSide == 2

\* Largest number of stones a board is started with (both rows together).
MaxBoardStones == 12

Players == {1, 2}

Pits == 0 .. (pocketsPerSide - 1)

\* Positions a caller may pass: every pit plus one index on each side of the row.
Positions == (0 - 1) .. pocketsPerSide

\* Values the stones slider can select: the starting counts per pit that put
\* at most MaxBoardStones stones on the board.
StoneCounts == {s \in 0 .. MaxBoardStones : 2 * pocketsPerSide * s <= MaxBoardStones}

VARIABLES
    player1Board,   \* GameState.player1Board: pit index -> stones
    player2Board,   \* GameState.player2Board
    mancalas,       \* GameState.mancalas: [player1, player2]
    currentPlayer,  \* GameState.currentPlayer: 1 or 2
    initialStones,  \* Game.initialStones: the value selected on the slider
    filledWith,     \* stones per pit put on the board by the last (re)start
    lastCall,       \* the last operation called: name, arguments, the GameState
                    \* it was called on, return value
    lastMove        \* the sowing done by the last operation (NoMove if it did none)

vars == <<player1Board, player2Board, mancalas, currentPlayer, initialStones,
          filledWith, lastCall, lastMove>>

\* The GameState object the methods below read and write.
this == [player1Board |-> player1Board, player2Board |-> player2Board,
         mancalas |-> mancalas, currentPlayer |-> currentPlayer]

----------------------------------------------------------------------------
\* Helpers of GameState

Other(player) == IF player = 1 THEN 2 ELSE 1

mancalaKey(player) == IF player = 1 THEN "player1" ELSE "player2"

getStonesAt(gs, player, position) ==
    IF player = 1 THEN gs.player1Board[position] ELSE gs.player2Board[position]

setStonesAt(gs, player, position, count) ==
    IF player = 1
    THEN [gs EXCEPT !.player1Board = [@ EXCEPT ![position] = count]]
    ELSE [gs EXCEPT !.player2Board = [@ EXCEPT ![position] = count]]

isValidMoveAcceptsEmpty(gs, position) ==
    IF position < 0 \/ position >= pocketsPerSide
    THEN FALSE
    ELSE getStonesAt(gs, gs.currentPlayer, position) >= 0

isValidMoveOtherRow(gs, position) ==
    IF position < 0 \/ position >= pocketsPerSide
    THEN FALSE
    ELSE getStonesAt(gs, Other(gs.currentPlayer), position) > 0

isValidMove(gs, position) ==
    IF position < 0 \/ position >= pocketsPerSide
    THEN FALSE
    ELSE getStonesAt(gs, gs.currentPlayer, position) > 0

\* The cell descriptors simulateMove returns; performMove's deposits are
\* logged with the same descriptors.
MancalaCell(player) == [player |-> player, position |-> 0 - 1, isMancala |-> TRUE]

PitCell(player, position) == [player |-> player, position |-> position, isMancala |-> FALSE]

----------------------------------------------------------------------------
\* performMove

\* The mirror pit in the other row.
oppositeIndexNoMirror(currentPos) == currentPos

oppositeIndex(currentPos) == pocketsPerSide - 1 - currentPos

\* The test for a landing in an empty pit, made after the stone is placed.
landedInEmptyPitAlways(L) == TRUE

landedInEmptyPit(L) == getStonesAt(L.gs, L.currentPlayer, L.currentPos) = 1

\* The number of stones a capture moves to the mancala.
capturedCountNoLandingStone(oppositeStones) == oppositeStones

capturedCount(oppositeStones) == oppositeStones + 1

\* The mancala count after a capture.
storeAfterCaptureAssigns(store, capturedStones) == capturedStones

storeAfterCapture(store, capturedStones) == store + capturedStones

\* The test that opens the capture block: the stone just placed was the last
\* one and lies in the mover's row.
lastStoneInOwnRowOrNot(L) == L.stones = 0

lastStoneInOwnRow(L) == L.stones = 0 /\ L.currentPlayer = L.gs.currentPlayer

\* The capture block run after a stone is placed in a pit.
\* L holds the locals of performMove and the object under mutation.
captureStep(L) ==
    IF lastStoneInOwnRow(L)
    THEN LET oppositePlayer == Other(L.currentPlayer)
             oppositePos == oppositeIndex(L.currentPos)
             oppositeStones == getStonesAt(L.gs, oppositePlayer, oppositePos)
         IN IF landedInEmptyPit(L) /\ oppositeStones > 0
            THEN LET capturedStones == capturedCount(oppositeStones)
                     g1 == setStonesAt(L.gs, oppositePlayer, oppositePos, 0)
                     g2 == setStonesAt(g1, L.currentPlayer, L.currentPos, 0)
                     g3 == [g2 EXCEPT !.mancalas[mancalaKey(L.currentPlayer)] =
                                          storeAfterCapture(@, capturedStones)]
                 IN [L EXCEPT !.gs = g3,
                              !.captures = Append(@, [player |-> L.currentPlayer,
                                                      position |-> L.currentPos,
                                                      opposite |-> oppositePos,
                                                      stones |-> capturedStones])]
            ELSE L
    ELSE L

\* Increment of the mover's mancala at the end of the mover's row.
mancalaStepKeepsStone(L) ==
    [L EXCEPT !.gs = [@ EXCEPT !.mancalas[mancalaKey(L.currentPlayer)] = @ + 1],
              !.lastStoneInMancala = (L.stones = 0),
              !.touched = Append(@, MancalaCell(L.currentPlayer))]

mancalaStep(L) ==
    [L EXCEPT !.gs = [@ EXCEPT !.mancalas[mancalaKey(L.currentPlayer)] = @ + 1],
              !.stones = @ - 1,
              !.lastStoneInMancala = (L.stones - 1 = 0),
              !.touched = Append(@, MancalaCell(L.currentPlayer))]

\* Placement of one stone in the pit (player, position).
placeStepTakesStone(L, player, position) ==
    [L EXCEPT !.gs = setStonesAt(@, player, position, getStonesAt(L.gs, player, position) - 1),
              !.stones = @ - 1,
              !.currentPlayer = player,
              !.currentPos = position,
              !.touched = Append(@, PitCell(player, position))]

placeStep(L, player, position) ==
    [L EXCEPT !.gs = setStonesAt(@, player, position, getStonesAt(L.gs, player, position) + 1),
              !.stones = @ - 1,
              !.currentPlayer = player,
              !.currentPos = position,
              !.touched = Append(@, PitCell(player, position))]

\* The test that sends a stone to the mancala at the end of a row.
addsToMancalaEitherRow(L) == TRUE

addsToMancala(L) == L.currentPlayer = L.gs.currentPlayer

\* The test that leaves the loop after a deposit in the mancala.
breaksLoopNever(L) == FALSE

breaksLoop(L) == L.lastStoneInMancala

\* The while loop of performMove, one iteration per unfolding.
RECURSIVE sowLoop(_)
sowLoop(L) ==
    IF ~(L.stones > 0)
    THEN L
    ELSE LET I == [L EXCEPT !.iterations = @ + 1]
             next == I.currentPos + 1
             atEnd == next >= pocketsPerSide
             toMancala == atEnd /\ addsToMancala(I)
             M == IF toMancala THEN mancalaStep(I) ELSE I
         IN IF toMancala /\ breaksLoop(M)
            THEN M
            ELSE LET player == IF atEnd THEN Other(I.currentPlayer) ELSE I.currentPlayer
                     position == IF atEnd THEN 0 ELSE next
                 IN sowLoop(captureStep(placeStep(M, player, position)))

\* The record of a call that did nothing.
NoMove == [picked |-> 0, touched |-> << >>, captures |-> << >>, iterations |-> 0,
           remaining |-> 0]

\* The turn switch at the end of performMove.
switchTurnsAlways(gs, lastStoneInMancala) ==
    [gs EXCEPT !.currentPlayer = Other(gs.currentPlayer)]

switchTurns(gs, lastStoneInMancala) ==
    IF ~lastStoneInMancala
    THEN [gs EXCEPT !.currentPlayer = Other(gs.currentPlayer)]
    ELSE gs

performMoveKeepsPit(gs, position) ==
    IF ~isValidMove(gs, position)
    THEN [gs |-> gs, result |-> FALSE, move |-> NoMove]
    ELSE LET stones == getStonesAt(gs, gs.currentPlayer, position)
             L0 == [gs |-> gs,
                    stones |-> stones,
                    currentPlayer |-> gs.currentPlayer,
                    currentPos |-> position,
                    lastStoneInMancala |-> FALSE,
                    touched |-> << >>, captures |-> << >>, iterations |-> 0]
             L == sowLoop(L0)
             after == switchTurns(L.gs, L.lastStoneInMancala)
         IN [gs |-> after, result |-> L.lastStoneInMancala,
             move |-> [picked |-> stones, touched |-> L.touched,
                       captures |-> L.captures, iterations |-> L.iterations,
                       remaining |-> L.stones]]

performMove(gs, position) ==
    IF ~isValidMove(gs, position)
    THEN [gs |-> gs, result |-> FALSE, move |-> NoMove]
    ELSE LET stones == getStonesAt(gs, gs.currentPlayer, position)
             L0 == [gs |-> setStonesAt(gs, gs.currentPlayer, position, 0),
                    stones |-> stones,
                    currentPlayer |-> gs.currentPlayer,
                    currentPos |-> position,
                    lastStoneInMancala |-> FALSE,
                    touched |-> << >>, captures |-> << >>, iterations |-> 0]
             L == sowLoop(L0)
             after == switchTurns(L.gs, L.lastStoneInMancala)
         IN [gs |-> after, result |-> L.lastStoneInMancala,
             move |-> [picked |-> stones, touched |-> L.touched,
                       captures |-> L.captures, iterations |-> L.iterations,
                       remaining |-> L.stones]]

----------------------------------------------------------------------------
\* simulateMove

\* The test in simulateMove that lists the mancala at the end of a row.
simAddsMancalaEitherRow(gs, player) == TRUE

simAddsMancala(gs, player) == player = gs.currentPlayer

\* The for loop of simulateMove, one iteration per unfolding.
RECURSIVE simLoop(_, _, _, _, _, _)
simLoop(gs, i, stones, player, pos, sequence) ==
    IF ~(i < stones)
    THEN sequence
    ELSE LET next == pos + 1
         IN IF next >= pocketsPerSide
            THEN IF simAddsMancala(gs, player)
                 THEN simLoop(gs, i + 1, stones, Other(player), 0 - 1,
                              Append(sequence, MancalaCell(player)))
                 ELSE simLoop(gs, i + 1, stones, Other(player), 0,
                              Append(sequence, PitCell(Other(player), 0)))
            ELSE simLoop(gs, i + 1, stones, player, next,
                         Append(sequence, PitCell(player, next)))

simulateMoveOneMore(gs, position) ==
    IF ~isValidMove(gs, position)
    THEN << >>
    ELSE simLoop(gs, 0, getStonesAt(gs, gs.currentPlayer, position) + 1,
                 gs.currentPlayer, position, << >>)

simulateMove(gs, position) ==
    IF ~isValidMove(gs, position)
    THEN << >>
    ELSE simLoop(gs, 0, getStonesAt(gs, gs.currentPlayer, position),
                 gs.currentPlayer, position, << >>)

----------------------------------------------------------------------------
\* Construction and restart

\* The GameState built by the constructor with every pit filled to `stones`.
initialize(stones) ==
    [player1Board |-> [p \in Pits |-> stones],
     player2Board |-> [p \in Pits |-> stones],
     mancalas |-> [player1 |-> 0, player2 |-> 0],
     currentPlayer |-> 1]

Install(gs) ==
    /\ player1Board' = gs.player1Board
    /\ player2Board' = gs.player2Board
    /\ mancalas' = gs.mancalas
    /\ currentPlayer' = gs.currentPlayer

Call(op, row, position, result, sequence) ==
    [op |-> op, row |-> row, position |-> position, before |-> this,
     result |-> result, sequence |-> sequence]

\* The game after construction.  The source fills every pit with 4 stones;
\* the slider and restartGame start a game with any other count, so the game
\* starts here with each count the bounds admit.
Init ==
    \E stones \in StoneCounts :
        /\ player1Board = initialize(stones).player1Board
        /\ player2Board = initialize(stones).player2Board
        /\ mancalas = initialize(stones).mancalas
        /\ currentPlayer = initialize(stones).currentPlayer
        /\ initialStones = stones
        /\ filledWith = stones
        /\ lastCall = [op |-> "constructor", row |-> 0, position |-> 0,
                       before |-> initialize(stones),
                       result |-> FALSE, sequence |-> << >>]
        /\ lastMove = NoMove

----------------------------------------------------------------------------
\* Operations

\* A direct call of GameState.performMove.
PerformMovePassesWhenStuck(position) ==
    LET r == performMove(this, position)
        stuck == \A p \in Pits : getStonesAt(this, currentPlayer, p) = 0
        passed == [this EXCEPT !.currentPlayer = Other(currentPlayer)]
    IN /\ Install(IF stuck THEN passed ELSE r.gs)
       /\ lastCall' = Call("performMove", 0, position, r.result, << >>)
       /\ lastMove' = r.move
       /\ UNCHANGED <<initialStones, filledWith>>

PerformMove(position) ==
    LET r == performMove(this, position)
    IN /\ Install(r.gs)
       /\ lastCall' = Call("performMove", 0, position, r.result, << >>)
       /\ lastMove' = r.move
       /\ UNCHANGED <<initialStones, filledWith>>

\* A direct call of GameState.isValidMove.
IsValidMove(position) ==
    /\ lastCall' = Call("isValidMove", 0, position, isValidMove(this, position), << >>)
    /\ lastMove' = NoMove
    /\ UNCHANGED <<player1Board, player2Board, mancalas, currentPlayer,
                   initialStones, filledWith>>

\* A direct call of GameState.simulateMove.
SimulateMoveCommits(position) ==
    /\ Install(performMove(this, position).gs)
    /\ lastCall' = Call("simulateMove", 0, position, FALSE, simulateMove(this, position))
    /\ lastMove' = NoMove
    /\ UNCHANGED <<initialStones, filledWith>>

SimulateMove(position) ==
    /\ lastCall' = Call("simulateMove", 0, position, FALSE, simulateMove(this, position))
    /\ lastMove' = NoMove
    /\ UNCHANGED <<player1Board, player2Board, mancalas, currentPlayer,
                   initialStones, filledWith>>

\* The input handler of the stones slider.
SliderInput(value) ==
    /\ initialStones' = value
    /\ lastCall' = Call("sliderInput", 0, value, FALSE, << >>)
    /\ lastMove' = NoMove
    /\ UNCHANGED <<player1Board, player2Board, mancalas, currentPlayer, filledWith>>

\* Game.restartGame: a new GameState, refilled with the selected stone count.
RestartGameKeepsCount ==
    /\ Install(initialize(filledWith))
    /\ UNCHANGED filledWith
    /\ lastCall' = Call("restartGame", 0, 0, FALSE, << >>)
    /\ lastMove' = NoMove
    /\ UNCHANGED initialStones

RestartGame ==
    /\ Install(initialize(initialStones))
    /\ filledWith' = initialStones
    /\ lastCall' = Call("restartGame", 0, 0, FALSE, << >>)
    /\ lastMove' = NoMove
    /\ UNCHANGED initialStones

\* Game.handleClick on the pit `position` of the row of player `row`.
HandleClickAnyRow(row, position) ==
    LET moves == isValidMove(this, position)
        r == performMove(this, position)
    IN /\ IF moves
          THEN Install(r.gs) /\ lastMove' = r.move
          ELSE /\ UNCHANGED <<player1Board, player2Board, mancalas, currentPlayer>>
               /\ lastMove' = NoMove
       /\ lastCall' = Call("handleClick", row, position, FALSE, << >>)
       /\ UNCHANGED <<initialStones, filledWith>>

HandleClick(row, position) ==
    LET moves == currentPlayer = row /\ isValidMove(this, position)
        r == performMove(this, position)
    IN /\ IF moves
          THEN Install(r.gs) /\ lastMove' = r.move
          ELSE /\ UNCHANGED <<player1Board, player2Board, mancalas, currentPlayer>>
               /\ lastMove' = NoMove
       /\ lastCall' = Call("handleClick", row, position, FALSE, << >>)
       /\ UNCHANGED <<initialStones, filledWith>>

\* Game.handleHover on the pit `position` of the row of player `row`; the
\* sequence it hands to highlightMoveSequence is kept in lastCall.
HandleHover(row, position) ==
    /\ lastCall' = Call("handleHover", row, position, FALSE,
                        IF currentPlayer = row THEN simulateMove(this, position) ELSE << >>)
    /\ lastMove' = NoMove
    /\ UNCHANGED <<player1Board, player2Board, mancalas, currentPlayer,
                   initialStones, filledWith>>

Next ==
    \/ \E position \in Positions : PerformMove(position)
    \/ \E position \in Positions : IsValidMove(position)
    \/ \E position \in Positions : SimulateMove(position)
    \/ \E value \in StoneCounts : SliderInput(value)
    \/ RestartGame
    \/ \E row \in Players, position \in Pits : HandleClick(row, position)
    \/ \E row \in Players, position \in Pits : HandleHover(row, position)

Spec == Init /\ [][Next]_vars

----------------------------------------------------------------------------
\* Observations the properties below are stated with

RECURSIVE SumUpTo(_, _)
SumUpTo(board, n) == IF n < 0 THEN 0 ELSE board[n] + SumUpTo(board, n - 1)

RowSum(board) == SumUpTo(board, pocketsPerSide - 1)

Total == RowSum(player1Board) + RowSum(player2Board) + mancalas.player1 + mancalas.player2

Row(player) == IF player = 1 THEN player1Board ELSE player2Board

Store(player) == mancalas[mancalaKey(player)]

\* The same, in the state the last operation was called on.
RowBefore(player) ==
    IF player = 1 THEN lastCall.before.player1Board ELSE lastCall.before.player2Board

StoreBefore(player) == lastCall.before.mancalas[mancalaKey(player)]

\* The last operation left every pit, both stores and the turn marker as
\* they were.
BoardUnchanged == this = lastCall.before

\* The last operation sowed stones (it ran performMove on a valid position).
Moved == lastMove.picked > 0

\* The player who was to move when the last operation was called.
Mover == lastCall.before.currentPlayer

\* The cell that received the last stone of the last sowing.
LastCell == lastMove.touched[Len(lastMove.touched)]

\* Number of deposits the sequence `touched` makes into `cell`.
Visits(touched, cell) == Cardinality({i \in 1 .. Len(touched) : touched[i] = cell})

\* Number of deposits the sequence `touched` makes into a store.
StoreVisits(touched) == Cardinality({i \in 1 .. Len(touched) : touched[i].isMancala})

\* One lap of the board: the mover's pits, the mover's store, the other pits.
LapLength == 2 * pocketsPerSide + 1

\* After a sowing: the stones the pit `cell` held just before it received the
\* last stone (the emptied pit counts from 0).
CountBeforeLast(cell) ==
    (IF cell.player = Mover /\ cell.position = lastCall.position
     THEN 0
     ELSE RowBefore(cell.player)[cell.position])
    + Visits(lastMove.touched, cell) - 1

\* After a sowing: the last stone went to a pit of the mover's row that was
\* empty just before.
LandedInEmptyOwnPit ==
    /\ ~LastCell.isMancala
    /\ LastCell.player = Mover
    /\ CountBeforeLast(LastCell) = 0

\* After a sowing that ended in a pit of the mover: the mirror pit of the
\* other row, and the stones it held when the last stone landed.
MirrorCell == PitCell(Other(Mover), pocketsPerSide - 1 - LastCell.position)

MirrorAtLanding ==
    RowBefore(MirrorCell.player)[MirrorCell.position] + Visits(lastMove.touched, MirrorCell)

\* After a sowing: the stones the mover's store gained beyond the one-per-visit
\* deposits of sowing.
CaptureGain == Store(Mover) - StoreBefore(Mover) - StoreVisits(lastMove.touched)

----------------------------------------------------------------------------
\* Properties

\* C1 Conservation: in every reachable state the stones of both rows and both
\* stores add up to 2 * pocketsPerSide * (stones per pit of the starting
\* configuration), whatever moves (plain, store-ending, capturing, rejected)
\* were made.
C1_Conservation == Total = 2 * pocketsPerSide * filledWith

\* A capture has just been made on a board that started with stones.
C1_Witness ==
    /\ lastCall.op = "performMove"
    /\ lastMove.captures # << >>
    /\ filledWith > 0

\* C2 Turn-continuation law: a performMove call returns true exactly when it
\* sowed and its last stone went into the mover's own store; in every other
\* case, an invalid position included, it returns false.
C2_TurnContinuation ==
    lastCall.op = "performMove" =>
        (lastCall.result <=> (Moved /\ LastCell = MancalaCell(Mover)))

\* A move of more than one lap has just ended in the mover's store.
C2_Witness ==
    /\ lastCall.op = "performMove"
    /\ lastCall.result
    /\ lastMove.picked > LapLength

\* C3 Turn-marker transition: after an operation that sowed, the marker is on
\* the mover if the last stone went into the mover's store and on the other
\* player otherwise; the marker is always 1 or 2; an operation that did not
\* sow leaves the marker where it was unless it is a restart.
C3_TurnMarkerTransition ==
    /\ currentPlayer \in Players
    /\ Moved => currentPlayer = IF LastCell = MancalaCell(Mover)
                                THEN Mover
                                ELSE Other(Mover)
    /\ (~Moved /\ lastCall.op # "restartGame") => currentPlayer = Mover

\* Player 2 has just ended a move in their own store and is still to move.
C3_Witness ==
    /\ Moved
    /\ Mover = 2
    /\ LastCell = MancalaCell(2)
    /\ currentPlayer = 2

\* C4 Simulate/perform agreement: the cells a sowing deposited into, in
\* order, are exactly the sequence simulateMove returns for the same position
\* in the state the move was made from.
C4_SimulatePerformAgreement ==
    Moved => lastMove.touched = simulateMove(lastCall.before, lastCall.position)

\* A move has just sown at least one full lap, store deposit included.
C4_Witness ==
    /\ Moved
    /\ Len(lastMove.touched) >= LapLength
    /\ StoreVisits(lastMove.touched) >= 1

\* C5 (as stated) Capture condition: a move captures if and only if its last
\* stone lands in a pit of the mover's row that was empty just before.
C5_CaptureIffEmptyOwnPit ==
    Moved => (CaptureGain > 0 <=> LandedInEmptyOwnPit)

\* C5 (amended) Capture condition: a move captures if and only if its last
\* stone lands in a pit of the mover's row that was empty just before and the
\* mirror pit of the other row holds at least one stone at that moment.
C5_CaptureCondition ==
    Moved => (CaptureGain > 0 <=> (LandedInEmptyOwnPit /\ MirrorAtLanding > 0))

\* The last stone has just landed in an empty pit of the mover whose mirror
\* pit is empty too: the stone is still there and nothing was captured.
C5_Witness ==
    /\ Moved
    /\ LandedInEmptyOwnPit
    /\ MirrorAtLanding = 0
    /\ Row(Mover)[LastCell.position] = 1
    /\ lastMove.captures = << >>

\* C6 Capture effect: when the last stone lands in an empty pit i of the mover
\* and the mirror pit holds k > 0 stones at that moment, the mover's store
\* gains k + 1 beyond the sowing deposits, pit i and the mirror pit end at 0
\* and the turn passes; when the mirror pit holds 0 the store gains nothing
\* beyond the sowing deposits and pit i keeps its one stone.
C6_CaptureEffect ==
    (Moved /\ LandedInEmptyOwnPit) =>
        IF MirrorAtLanding > 0
        THEN /\ CaptureGain = MirrorAtLanding + 1
             /\ Row(Mover)[LastCell.position] = 0
             /\ Row(MirrorCell.player)[MirrorCell.position] = 0
             /\ currentPlayer = Other(Mover)
        ELSE /\ CaptureGain = 0
             /\ Row(Mover)[LastCell.position] = 1
             /\ Row(MirrorCell.player)[MirrorCell.position] = 0

\* A capture of a mirror pit holding two or more stones has just been made.
C6_Witness ==
    /\ Moved
    /\ LandedInEmptyOwnPit
    /\ MirrorAtLanding >= 2
    /\ Len(lastMove.captures) = 1
    /\ currentPlayer = Other(Mover)

\* C7 Opponent store skip: a performMove call, direct or from a click, never
\* changes the store of the player who is not to move, however many stones
\* are sown.
C7_OpponentStoreSkip ==
    lastCall.op \in {"performMove", "handleClick"} =>
        Store(Other(Mover)) = StoreBefore(Other(Mover))

\* A move has just carried stones past the end of the opponent's row while
\* the opponent's store holds stones.
C7_Witness ==
    /\ Moved
    /\ lastMove.picked > 2 * pocketsPerSide - lastCall.position
    /\ Store(Other(Mover)) > 0

\* C8 Invalid move is a no-op: performMove on a position outside
\* [0, pocketsPerSide) or on an empty pit of the player to move returns false
\* and changes no pit, no store and not the turn marker.
C8_InvalidMoveNoOp ==
    (/\ lastCall.op = "performMove"
     /\ IF lastCall.position \in Pits
        THEN RowBefore(Mover)[lastCall.position] = 0
        ELSE TRUE)
    => (lastCall.result = FALSE /\ BoardUnchanged)

\* performMove has just been called on an empty pit of the player to move,
\* on a board that still holds stones in that row.
C8_Witness ==
    /\ lastCall.op = "performMove"
    /\ lastCall.position \in Pits
    /\ RowBefore(Mover)[lastCall.position] = 0
    /\ RowSum(RowBefore(Mover)) > 0

\* C9 Non-negativity: in every reachable state every pit of both rows and
\* both stores hold a natural number.
C9_NonNegativity ==
    /\ \A p \in Pits : player1Board[p] \in Nat /\ player2Board[p] \in Nat
    /\ mancalas.player1 \in Nat
    /\ mancalas.player2 \in Nat

\* A move has just emptied its pit, and both stores hold stones.
C9_Witness ==
    /\ lastCall.op = "performMove"
    /\ Moved
    /\ \E p \in Pits : Row(Mover)[p] = 0
    /\ mancalas.player1 > 0
    /\ mancalas.player2 > 0

\* C10 isValidMove returns true exactly when the position is in
\* [0, pocketsPerSide) and the pit at that position in the row of the player
\* to move holds a stone, whatever the other row holds, and it changes nothing.
C10_IsValidMove ==
    lastCall.op = "isValidMove" =>
        /\ lastCall.result <=> (/\ lastCall.position \in Pits
                                /\ RowBefore(Mover)[lastCall.position] > 0)
        /\ BoardUnchanged

\* isValidMove has just accepted a position whose pit in the other row is
\* empty.
C10_Witness ==
    /\ lastCall.op = "isValidMove"
    /\ lastCall.result
    /\ Row(Other(currentPlayer))[lastCall.position] = 0

\* C11 simulateMove is read-only: after a simulateMove call, direct or from
\* a hover, on any position, every pit, both stores and the turn marker are
\* what they were before the call (so a later performMove acts on the same
\* state as without the call).
C11_SimulateReadOnly ==
    lastCall.op \in {"simulateMove", "handleHover"} => BoardUnchanged

\* simulateMove has just returned a sequence of at least one lap.
C11_Witness ==
    /\ lastCall.op = "simulateMove"
    /\ Len(lastCall.sequence) >= LapLength
    /\ BoardUnchanged

\* After a sowing: the pits that hold fewer stones than before the call.
LoweredPits ==
    {cell \in {PitCell(player, p) : player \in Players, p \in Pits} :
        Row(cell.player)[cell.position] < RowBefore(cell.player)[cell.position]}

\* C12 Only the player to move sows, and only from their own row: a sowing
\* picks up exactly the stones of the mover's pit at the position given, and
\* the only pits it leaves with fewer stones are that pit and a captured
\* mirror pit; a click on a pit of the row of the player who is not to move
\* sows nothing and changes nothing.
C12_OnlyMoverSows ==
    /\ Moved =>
          /\ lastMove.picked = RowBefore(Mover)[lastCall.position]
          /\ PitCell(Mover, lastCall.position) \in LoweredPits
          /\ \A cell \in LoweredPits :
                \/ cell = PitCell(Mover, lastCall.position)
                \/ LandedInEmptyOwnPit /\ cell = MirrorCell
    /\ (lastCall.op = "handleClick" /\ lastCall.row # Mover) =>
          (~Moved /\ BoardUnchanged)

\* A pit of the row of the player who is not to move has just been clicked,
\* at a position where the player to move has stones.
C12_Witness ==
    /\ lastCall.op = "handleClick"
    /\ lastCall.row # Mover
    /\ RowBefore(Mover)[lastCall.position] > 0
    /\ Row(lastCall.row)[lastCall.position] > 0
    /\ BoardUnchanged

\* C13 Restart: after restartGame, whatever the state was, every pit of both
\* rows holds the stone count selected on the slider, both stores are 0 and
\* player 1 is to move.
C13_Restart ==
    lastCall.op = "restartGame" =>
        /\ \A p \in Pits : player1Board[p] = initialStones /\ player2Board[p] = initialStones
        /\ mancalas.player1 = 0
        /\ mancalas.player2 = 0
        /\ currentPlayer = 1

\* A game in which player 2 was to move and player 1 had banked stones has
\* just been restarted with a stone count other than the one it started with.
C13_Witness ==
    /\ lastCall.op = "restartGame"
    /\ lastCall.before.currentPlayer = 2
    /\ lastCall.before.mancalas.player1 > 0
    /\ initialStones > 0
    /\ RowSum(lastCall.before.player1Board) + RowSum(lastCall.before.player2Board)
         + lastCall.before.mancalas.player1 + lastCall.before.mancalas.player2
       # 2 * pocketsPerSide * initialStones

RECURSIVE CapturedStones(_, _)
CapturedStones(captures, n) ==
    IF n = 0 THEN 0 ELSE captures[n].stones + CapturedStones(captures, n - 1)

\* C14 Stores only grow: no operation but a restart lowers a store; a
\* performMove, direct or from a click, raises the mover's store by its store
\* deposits plus the stones it captured and leaves the other store as it was.
C14_StoresOnlyGrow ==
    /\ lastCall.op # "restartGame" =>
          \A player \in Players : Store(player) >= StoreBefore(player)
    /\ lastCall.op \in {"performMove", "handleClick"} =>
          /\ Store(Mover) = StoreBefore(Mover) + StoreVisits(lastMove.touched)
                            + CapturedStones(lastMove.captures, Len(lastMove.captures))
          /\ Store(Other(Mover)) = StoreBefore(Other(Mover))

\* A move has just passed the mover's store, which already held stones, and
\* ended with a capture.
C14_Witness ==
    /\ Moved
    /\ StoreBefore(Mover) > 0
    /\ StoreVisits(lastMove.touched) >= 1
    /\ lastMove.captures # << >>

\* C15 Termination: a performMove call on a valid position holding n stones
\* ends after at most n iterations of its loop, having made exactly n
\* deposits, with no stone left in hand.
C15_Termination ==
    Moved =>
        /\ lastMove.iterations >= 1
        /\ lastMove.iterations <= lastMove.picked
        /\ Len(lastMove.touched) = lastMove.picked
        /\ lastMove.remaining = 0

\* A move of at least one lap has just ended after fewer iterations than it
\* had stones (one iteration put a stone in the store and one in the next pit).
C15_Witness ==
    /\ Moved
    /\ lastMove.picked >= LapLength
    /\ lastMove.iterations < lastMove.picked

\* The cell j steps into the sowing cycle of `mover`: the mover's pits
\* 0 .. pocketsPerSide - 1, the mover's store, the other player's pits.
CycleCell(mover, j) ==
    IF j < pocketsPerSide
    THEN PitCell(mover, j)
    ELSE IF j = pocketsPerSide
         THEN MancalaCell(mover)
         ELSE PitCell(Other(mover), j - pocketsPerSide - 1)

\* After a sowing: what the pit `cell` holds if sowing is all that happened
\* to it (the emptied pit counts from 0).
SownCount(cell) ==
    (IF cell = PitCell(Mover, lastCall.position)
     THEN 0
     ELSE RowBefore(cell.player)[cell.position])
    + Visits(lastMove.touched, cell)

AllPits == {PitCell(player, p) : player \in Players, p \in Pits}

\* C16 Sowing order: a move from a pit holding n stones empties that pit and
\* puts its k-th stone, for k = 1 .. n, into the cell k steps after the pit in
\* the cycle 'mover's pits, mover's store, other player's pits'; afterwards
\* every pit holds what it held plus the stones sown into it, and the stores
\* what they held plus the mover's store deposits, except for the two pits
\* and the store of a final capture.
C16_SowingOrder ==
    Moved =>
        /\ Len(lastMove.touched) = RowBefore(Mover)[lastCall.position]
        /\ \A k \in 1 .. Len(lastMove.touched) :
              lastMove.touched[k] =
                  CycleCell(Mover, (lastCall.position + k) % LapLength)
        /\ \A cell \in AllPits :
              Row(cell.player)[cell.position] =
                  IF lastMove.captures # << >> /\ cell \in {LastCell, MirrorCell}
                  THEN 0
                  ELSE SownCount(cell)
        /\ Store(Mover) = StoreBefore(Mover) + StoreVisits(lastMove.touched)
                          + CapturedStones(lastMove.captures, Len(lastMove.captures))
        /\ Store(Other(Mover)) = StoreBefore(Other(Mover))

\* A move has just sown more than one lap without a capture, so the pit it
\* started from holds the stone sown into it.
C16_Witness ==
    /\ Moved
    /\ lastMove.picked > LapLength
    /\ lastMove.captures = << >>
    /\ Row(Mover)[lastCall.position] = 1

\* C17 (as stated) No move ends in the pit it started from.
C17_NeverEndsInStartPit ==
    Moved => LastCell # PitCell(Mover, lastCall.position)

\* C17 (amended) A move ends in the pit it started from exactly when the pit
\* held a multiple of 2 * pocketsPerSide + 1 stones; with any other number of
\* stones the last stone goes to another cell.
C17_EndsInStartPitIffFullLaps ==
    Moved => (LastCell = PitCell(Mover, lastCall.position)
              <=> lastMove.picked % LapLength = 0)

\* A move of exactly one lap has just put its last stone into the pit it
\* started from.
C17_Witness ==
    /\ Moved
    /\ lastMove.picked = LapLength
    /\ LastCell = PitCell(Mover, lastCall.position)

\* C18 Landing in the opponent's row never captures: when the last stone
\* lands in a pit of the other player's row, nothing goes to a store beyond
\* the sowing deposits, the landing pit keeps what was sown into it and the
\* mirror pit in the mover's row is not emptied; no move captures twice.
C18_NoCaptureInOpponentRow ==
    Moved =>
        /\ Len(lastMove.captures) <= 1
        /\ (~LastCell.isMancala /\ LastCell.player = Other(Mover)) =>
              /\ lastMove.captures = << >>
              /\ CaptureGain = 0
              /\ Store(Other(Mover)) = StoreBefore(Other(Mover))
              /\ Row(LastCell.player)[LastCell.position] = SownCount(LastCell)
              /\ LET mirror == PitCell(Mover, pocketsPerSide - 1 - LastCell.position)
                 IN Row(Mover)[mirror.position] = SownCount(mirror)

\* The last stone has just landed in an empty pit of the other player's row
\* whose mirror pit in the mover's row holds stones.
C18_Witness ==
    /\ Moved
    /\ ~LastCell.isMancala
    /\ LastCell.player = Other(Mover)
    /\ Row(Other(Mover))[LastCell.position] = 1
    /\ Row(Mover)[pocketsPerSide - 1 - LastCell.position] > 0

\* C19 simulateMove result size: for a position outside [0, pocketsPerSide)
\* or an empty pit of the player to move the sequence is empty; otherwise it
\* has as many entries as the pit has stones, every store entry names the
\* player to move and every pit entry has an index in [0, pocketsPerSide).
C19_SimulateResult ==
    lastCall.op = "simulateMove" =>
        IF lastCall.position \in Pits /\ RowBefore(Mover)[lastCall.position] > 0
        THEN /\ Len(lastCall.sequence) = RowBefore(Mover)[lastCall.position]
             /\ \A i \in 1 .. Len(lastCall.sequence) :
                   LET entry == lastCall.sequence[i]
                   IN IF entry.isMancala
                      THEN entry.player = Mover
                      ELSE entry.player \in Players /\ entry.position \in Pits
        ELSE lastCall.sequence = << >>

\* simulateMove has just returned a sequence that passes the mover's store
\* and enters the other player's row.
C19_Witness ==
    /\ lastCall.op = "simulateMove"
    /\ StoreVisits(lastCall.sequence) >= 1
    /\ Visits(lastCall.sequence, PitCell(Other(Mover), 0)) >= 1

\* C20 Closed form for the extra turn: a valid performMove from position p on
\* a pit of n stones returns true, and leaves the turn with the mover, exactly
\* when (p + n) mod (2 * pocketsPerSide + 1) = pocketsPerSide.
C20_ExtraTurnClosedForm ==
    (lastCall.op = "performMove" /\ Moved) =>
        LET inStore == (lastCall.position + lastMove.picked) % LapLength = pocketsPerSide
        IN /\ lastCall.result <=> inStore
           /\ currentPlayer = Mover <=> inStore

\* A move of at least one lap has just ended elsewhere than in the store and
\* passed the turn.
C20_Witness ==
    /\ lastCall.op = "performMove"
    /\ lastMove.picked >= LapLength
    /\ (lastCall.position + lastMove.picked) % LapLength # pocketsPerSide
    /\ currentPlayer = Other(Mover)

\* Every pit of the player to move is empty.
MoverRowEmpty == \A p \in Pits : Row(currentPlayer)[p] = 0

\* C21 No game-over transition: from a state where every pit of the player
\* to move is empty, isValidMove answers false, performMove answers false and
\* sows nothing, and every operation other than restartGame leaves the rows,
\* the stores and the turn marker as they are.
C21_NoGameOverTransition ==
    [][MoverRowEmpty =>
          /\ lastCall'.op = "isValidMove" => lastCall'.result = FALSE
          /\ lastCall'.op = "performMove" =>
                lastCall'.result = FALSE /\ lastMove' = NoMove
          /\ lastCall'.op # "restartGame" => this' = this]_vars

\* performMove has just been called for a pit of a player whose row was
\* emptied by play while the other row still holds stones, and nothing moved.
C21_Witness ==
    /\ lastCall.op = "performMove"
    /\ lastCall.position \in Pits
    /\ \A p \in Pits : RowBefore(Mover)[p] = 0
    /\ StoreBefore(Mover) > 0
    /\ RowSum(Row(Other(Mover))) > 0
    /\ currentPlayer = Mover
    /\ BoardUnchanged

====
